---- MODULE Spec2Model ----
(***************************************************************************)
(* Model of src/hello.py: the bulk reserved-concurrency tool.              *)
(* One run of main(): mode selection, target resolution (iter_targets /    *)
(* add_row / parse_int_or_none), Set validation, dry-run printing, and the *)
(* live fan-out over a ThreadPoolExecutor with as_completed collection.    *)
(*                                                                         *)
(* Strings that the code inspects (function names, CSV value texts) are    *)
(* sequences of one-character strings so that strip(), lower(),            *)
(* startswith() and int() are computed, not assumed.  An Optional value is *)
(* <<>> for None and <<x>> for a present x.                                *)
(***************************************************************************)
EXTENDS Integers, Sequences, FiniteSets, TLC

\* ---- bounds of the model ----
\* number of CSV rows the reader may deliver
MaxRows == 2
\* worker threads of the ThreadPoolExecutor (host dependent in the code)
MaxWorkers == 2

None == <<>>
Some(x) == <<x>>

\* ---- character-level helpers -------------------------------------------
HeaderWord == <<"f", "u", "n", "c", "t", "i", "o", "n">>

DigitChars == <<"0", "1", "2", "3", "4", "5", "6", "7", "8", "9">>

IsDigit(c) == \E d \in 1..Len(DigitChars) : DigitChars[d] = c

DigitVal(c) == (CHOOSE d \in 1..Len(DigitChars) : DigitChars[d] = c) - 1

IsSpace(c) == c = " "

RECURSIVE LStrip(_)
LStrip(s) == IF s # <<>> /\ IsSpace(Head(s)) THEN LStrip(Tail(s)) ELSE s

RECURSIVE RStrip(_)
RStrip(s) ==
    IF s # <<>> /\ IsSpace(s[Len(s)]) THEN RStrip(SubSeq(s, 1, Len(s) - 1)) ELSE s

\* str.strip()
Strip(s) == RStrip(LStrip(s))

LowerChar(c) == IF c = "F" THEN "f" ELSE c

\* str.lower()
Lower(s) == [i \in 1..Len(s) |-> LowerChar(s[i])]

\* str.startswith(p)
StartsWith(s, p) == Len(s) >= Len(p) /\ SubSeq(s, 1, Len(p)) = p

RECURSIVE DigitsVal(_)
DigitsVal(s) ==
    IF s = <<>> THEN 0
    ELSE 10 * DigitsVal(SubSeq(s, 1, Len(s) - 1)) + DigitVal(s[Len(s)])

AllDigits(s) == s # <<>> /\ \A i \in 1..Len(s) : IsDigit(s[i])

\* int(s): surrounding whitespace is ignored, an optional sign, then digits;
\* anything else is a ValueError.
IntOf(s) ==
    LET t == Strip(s)
        signed == t # <<>> /\ Head(t) \in {"-", "+"}
        body == IF signed THEN Tail(t) ELSE t
    IN IF AllDigits(body)
       THEN [ok |-> TRUE,
             val |-> IF signed /\ Head(t) = "-" THEN 0 - DigitsVal(body) ELSE DigitsVal(body)]
       ELSE [ok |-> FALSE, val |-> 0]

\* parse_int_or_none(s): s is an Optional text.  kind "none" is the None
\* result, "int" an integer, "error" the SystemExit for a non-integer.
parse_int_or_none(s) ==
    IF s = None THEN [kind |-> "none", val |-> 0]
    ELSE LET t == Strip(s[1])
         IN IF t = <<>> THEN [kind |-> "none", val |-> 0]
            ELSE IF IntOf(t).ok THEN [kind |-> "int", val |-> IntOf(t).val]
            ELSE [kind |-> "error", val |-> 0]

\* ---- inputs ---------------------------------------------------------------
FunctionNames ==
    { <<"a">>, <<" ", "b">>, <<>>, <<" ">>,
      <<"F", "u", "n", "c", "t", "i", "o", "n">>,
      <<"f", "u", "n", "c", "t", "i", "o", "n", "-", "a">> }

RowNames == { <<"a">>, <<" ", "b">>, <<>>, <<"F", "u", "n", "c", "t", "i", "o", "n">> }

ValTexts == { <<>>, <<" ", "5">>, <<"-", "1">>, <<"-", "2">>, <<"x">> }

\* what csv.reader yields for one line: [] for a blank line, else the fields
RowInputs ==
    {<<>>} \cup { <<n>> : n \in RowNames } \cup { <<n, v>> : n \in RowNames, v \in ValTexts }

FileNames == { "-", "funcs.csv", "" }

ConcurrencyArgs == { None, Some(3), Some(0 - 1), Some(0 - 2) }

\* argparse: --function and --file are a required mutually exclusive group
ArgSets ==
    { a \in [function : {None} \cup { Some(n) : n \in FunctionNames },
             file : {None} \cup { Some(f) : f \in FileNames },
             show : BOOLEAN, remove : BOOLEAN, throttle : BOOLEAN, do_set : BOOLEAN,
             dry_run : BOOLEAN,
             concurrency : ConcurrencyArgs] :
        (a.function = None) # (a.file = None) }

Outcomes == { "ok", "client_error", "error" }

VARIABLES
    args,       \* the parsed argparse.Namespace
    pc,         \* position of the main thread
    rows,       \* iter_targets' rows list
    nread,      \* rows delivered by the csv reader so far
    targets,    \* main's targets list
    tasks,      \* futures in submission order: [state, outcome]
    calls,      \* remote API calls issued, in order of issue
    consumed,   \* futures already yielded by as_completed
    had_error,  \* main's had_error flag
    out,        \* lines printed
    term,       \* how the process ended
    exit_code   \* Optional exit status

vars == <<args, pc, rows, nread, targets, tasks, calls, consumed,
          had_error, out, term, exit_code>>

\* ---- mode selection (main) --------------------------------------------
ModeKeys == <<"remove", "throttle", "set">>

ModeFlag(a, k) ==
    IF k = "remove" THEN a.remove ELSE IF k = "throttle" THEN a.throttle ELSE a.do_set

\* chosen = [k for k, v in mode_flags.items() if v]
Chosen(a) == SelectSeq(ModeKeys, LAMBDA k : ModeFlag(a, k))

ModeShowLast(a) ==
    IF Len(Chosen(a)) = 1 THEN Chosen(a)[1]
    ELSE IF a.show THEN "show" ELSE "invalid"

\* the branch main() takes: --show first, then exactly one of the others
Mode(a) ==
    IF a.show THEN "show"
    ELSE IF Len(Chosen(a)) # 1 THEN "invalid"
    ELSE Chosen(a)[1]

ReadValuesThrottle(a) == Mode(a) \in {"set", "throttle"}

\* iter_targets is called with read_values=True only in the set branch
ReadValues(a) == Mode(a) = "set"

DryRunAlwaysLive(a) == FALSE

\* the dry-run branches exist only under remove / throttle / set
IsDryRun(a) == a.dry_run /\ Mode(a) \in {"remove", "throttle", "set"}

\* ---- target resolution (iter_targets) -----------------------------------
Target(name, v) == [fn |-> name, v |-> v]

\* add_row(name, val_text) on the rows list rws; err is the SystemExit of
\* parse_int_or_none
add_row(rws, name, val_text, rv, conc) ==
    LET nm == Strip(name)
    IN IF nm = <<>> \/ StartsWith(Lower(nm), HeaderWord)
       THEN [err |-> FALSE, rows |-> rws]
       ELSE IF rv
            THEN LET per_row == parse_int_or_none(val_text)
                 IN IF per_row.kind = "error" THEN [err |-> TRUE, rows |-> rws]
                    ELSE IF per_row.kind = "int"
                         THEN [err |-> FALSE, rows |-> Append(rws, Target(nm, Some(per_row.val)))]
                         ELSE [err |-> FALSE, rows |-> Append(rws, Target(nm, conc))]
            ELSE [err |-> FALSE, rows |-> Append(rws, Target(nm, None))]

FunctionGiven(a) == a.function # None /\ a.function[1] # <<>>

FileGiven(a) == a.file # None /\ a.file[1] # ""

\* missing = [fn for fn, v in targets if v is None]
Missing(ts) == SelectSeq(ts, LAMBDA t : t.v = None)

\* ---- process termination ------------------------------------------------
ConfigErrors == { "mode_error", "bad_int", "no_targets", "missing_value" }

\* uncaught exceptions raised before any target is processed
SetupErrors == { "client_init_error", "open_error" }

ExitStatusQuiet(t) ==
    IF t \in {"return"} \cup ConfigErrors THEN 0 ELSE 1

\* return -> 0; SystemExit(message), sys.exit(1) and an uncaught exception -> 1
ExitStatus(t) == IF t = "return" THEN 0 ELSE 1

Terminate(t) ==
    /\ pc' = "done"
    /\ term' = t
    /\ exit_code' = Some(ExitStatus(t))

\* ---- the remote operation of one target -----------------------------------
Call(op, fn, value, i) == [op |-> op, fn |-> fn, value |-> value, idx |-> i]

ThrottleCallRemove(t, i) == Call("delete", t.fn, None, i)

\* set_reserved(client, fn, 0)
ThrottleCall(t, i) == Call("put", t.fn, Some(0), i)

SetCallAlwaysPut(t, i) == Call("put", t.fn, t.v, i)

\* set branch: delete_concurrency when v == -1, else set_reserved(fn, v)
SetCall(t, i) ==
    IF t.v = Some(0 - 1) THEN Call("delete", t.fn, None, i)
    ELSE Call("put", t.fn, t.v, i)

TaskCall(a, t, i) ==
    CASE Mode(a) = "show" -> Call("get", t.fn, None, i)
      [] Mode(a) = "remove" -> Call("delete", t.fn, None, i)
      [] Mode(a) = "throttle" -> ThrottleCall(t, i)
      [] Mode(a) = "set" -> SetCall(t, i)

\* ---- initial state ------------------------------------------------------
Init ==
    /\ args \in ArgSets
    /\ pc = "start"
    /\ rows = <<>>
    /\ nread = 0
    /\ targets = <<>>
    /\ tasks = <<>>
    /\ calls = <<>>
    /\ consumed = {}
    /\ had_error = FALSE
    /\ out = <<>>
    /\ term = "running"
    /\ exit_code = None

\* ---- main thread: mode selection and target resolution -------------------
\* client = make_client(args.region)
MakeClient ==
    /\ pc = "start"
    /\ pc' = "main"
    /\ UNCHANGED <<args, rows, nread, targets, tasks, calls, consumed, had_error, out,
                   term, exit_code>>

\* boto3.client raises (no region or no usable configuration): uncaught
MakeClientFails ==
    /\ pc = "start"
    /\ Terminate("client_init_error")
    /\ UNCHANGED <<args, rows, nread, targets, tasks, calls, consumed, had_error, out>>

SelectMode ==
    /\ pc = "main"
    /\ IF Mode(args) = "invalid"
       THEN Terminate("mode_error")
       ELSE pc' = "iter_function" /\ UNCHANGED <<term, exit_code>>
    /\ UNCHANGED <<args, rows, nread, targets, tasks, calls, consumed, had_error, out>>

AddFunction ==
    /\ pc = "iter_function"
    /\ LET r == add_row(rows, args.function[1], None, ReadValues(args), args.concurrency)
       IN IF ~FunctionGiven(args)
          THEN pc' = "iter_file" /\ UNCHANGED <<rows, term, exit_code>>
          ELSE IF r.err
               THEN Terminate("bad_int") /\ UNCHANGED rows
               ELSE pc' = "iter_file" /\ rows' = r.rows /\ UNCHANGED <<term, exit_code>>
    /\ UNCHANGED <<args, nread, targets, tasks, calls, consumed, had_error, out>>

OpenFile ==
    /\ pc = "iter_file"
    /\ pc' = IF FileGiven(args) THEN "read_rows" ELSE "iter_end"
    /\ UNCHANGED <<args, rows, nread, targets, tasks, calls, consumed, had_error, out,
                   term, exit_code>>

\* open(args.file) raises OSError: uncaught, the interpreter exits with 1
OpenFails ==
    /\ pc = "iter_file"
    /\ FileGiven(args)
    /\ args.file[1] # "-"
    /\ Terminate("open_error")
    /\ UNCHANGED <<args, rows, nread, targets, tasks, calls, consumed, had_error, out>>

ReadRow ==
    /\ pc = "read_rows"
    /\ nread < MaxRows
    /\ \E parts \in RowInputs :
         LET r == add_row(rows, parts[1], IF Len(parts) > 1 THEN Some(parts[2]) ELSE None,
                          ReadValues(args), args.concurrency)
         IN IF parts = <<>>
            THEN UNCHANGED <<pc, rows, term, exit_code>>
            ELSE IF r.err
                 THEN Terminate("bad_int") /\ UNCHANGED rows
                 ELSE rows' = r.rows /\ UNCHANGED <<pc, term, exit_code>>
    /\ nread' = nread + 1
    /\ UNCHANGED <<args, targets, tasks, calls, consumed, had_error, out>>

EndOfFile ==
    /\ pc = "read_rows"
    /\ pc' = "iter_end"
    /\ UNCHANGED <<args, rows, nread, targets, tasks, calls, consumed, had_error, out,
                   term, exit_code>>

ProceedSubmit(a) == "submit"

\* where main continues once it holds a valid target list
Proceed(a) == IF IsDryRun(a) THEN "dryrun" ELSE "submit"

IterReturn ==
    /\ pc = "iter_end"
    /\ IF rows = <<>>
       THEN Terminate("no_targets") /\ UNCHANGED targets
       ELSE /\ targets' = rows
            /\ pc' = IF Mode(args) = "set" THEN "validate" ELSE Proceed(args)
            /\ UNCHANGED <<term, exit_code>>
    /\ UNCHANGED <<args, rows, nread, tasks, calls, consumed, had_error, out>>

ValidateSet ==
    /\ pc = "validate"
    /\ IF Missing(targets) # <<>>
       THEN Terminate("missing_value")
       ELSE pc' = Proceed(args) /\ UNCHANGED <<term, exit_code>>
    /\ UNCHANGED <<args, rows, nread, targets, tasks, calls, consumed, had_error, out>>

\* ---- dry run -----------------------------------------------------------
Line(tag, fn, v) == [tag |-> tag, fn |-> fn, v |-> v]

DryRunLine(a, t) ==
    CASE Mode(a) = "remove" -> Line("DRYRUN REMOVE", t.fn, None)
      [] Mode(a) = "throttle" -> Line("DRYRUN SET", t.fn, Some(0))
      [] Mode(a) = "set" ->
            IF t.v = Some(0 - 1) THEN Line("DRYRUN REMOVE", t.fn, None)
            ELSE Line("DRYRUN SET", t.fn, t.v)

DryRun ==
    /\ pc = "dryrun"
    /\ out' = out \o [i \in 1..Len(targets) |-> DryRunLine(args, targets[i])]
    /\ Terminate("return")
    /\ UNCHANGED <<args, rows, nread, targets, tasks, calls, consumed, had_error>>

\* ---- live run: ThreadPoolExecutor and as_completed ----------------------
Running == { i \in 1..Len(tasks) : tasks[i].state = "running" }

Queued == { i \in 1..Len(tasks) : tasks[i].state = "queued" }

Done == { i \in 1..Len(tasks) : tasks[i].state = "done" }

\* ex.submit(...) for the next target, in list order
Submit ==
    /\ pc = "submit"
    /\ Len(tasks) < Len(targets)
    /\ tasks' = Append(tasks, [state |-> "queued", outcome |-> "none"])
    /\ pc' = IF Len(tasks') = Len(targets) THEN "collect" ELSE "submit"
    /\ UNCHANGED <<args, rows, nread, targets, calls, consumed, had_error, out,
                   term, exit_code>>

\* a free worker takes the oldest queued work item and issues its remote call
Start(i) ==
    /\ i \in Queued
    /\ \A j \in Queued : i <= j
    /\ Cardinality(Running) < MaxWorkers
    /\ tasks' = [tasks EXCEPT ![i].state = "running"]
    /\ calls' = Append(calls, TaskCall(args, targets[i], i))
    /\ UNCHANGED <<args, pc, rows, nread, targets, consumed, had_error, out,
                   term, exit_code>>

\* the remote call returns, raises ClientError, or raises something else
Finish(i, o) ==
    /\ i \in Running
    /\ tasks' = [tasks EXCEPT ![i] = [state |-> "done", outcome |-> o]]
    /\ UNCHANGED <<args, pc, rows, nread, targets, calls, consumed, had_error, out,
                   term, exit_code>>

\* get_reserved_concurrency turns a ClientError into an "ERROR: ..." status;
\* any other exception stays in the future.  delete_concurrency and
\* set_reserved catch nothing.
FutureRaises(a, o) ==
    IF Mode(a) = "show" THEN o = "error" ELSE o # "ok"

\* had_error = True in the except branch, never reset
HadError(prev, raised) == prev \/ raised

ResultLine(a, t, o) ==
    CASE Mode(a) = "show" -> Line("SHOW", t.fn, IF o = "ok" THEN None ELSE Some("ERROR"))
      [] Mode(a) = "remove" -> Line("REMOVE", t.fn, None)
      [] Mode(a) = "throttle" -> Line("SET", t.fn, Some(0))
      [] Mode(a) = "set" ->
            IF t.v = Some(0 - 1) THEN Line("REMOVE", t.fn, None) ELSE Line("SET", t.fn, t.v)

\* one iteration of "for fut in as_completed(futs)"
Collect(i) ==
    /\ pc = "collect"
    /\ i \in Done \ consumed
    /\ consumed' = consumed \cup {i}
    /\ LET o == tasks[i].outcome
           raised == FutureRaises(args, o)
       IN IF Mode(args) = "show"
          THEN IF raised
               THEN pc' = "unwind" /\ UNCHANGED <<out, had_error>>
               ELSE /\ out' = Append(out, ResultLine(args, targets[i], o))
                    /\ UNCHANGED <<pc, had_error>>
          ELSE /\ had_error' = HadError(had_error, raised)
               /\ out' = Append(out, IF raised THEN Line("ERROR", targets[i].fn, targets[i].v)
                                     ELSE ResultLine(args, targets[i], o))
               /\ UNCHANGED pc
    /\ UNCHANGED <<args, rows, nread, targets, tasks, calls, term, exit_code>>

ExitNoWait == TRUE

\* ThreadPoolExecutor.__exit__ is shutdown(wait=True): it returns once every
\* submitted work item has run
ExecutorExitReady == Done = 1..Len(tasks)

\* as_completed is exhausted; the with block ends; had_error decides the exit
LoopEnd ==
    /\ pc = "collect"
    /\ consumed = 1..Len(tasks)
    /\ ExecutorExitReady
    /\ Terminate(IF had_error THEN "had_error" ELSE "return")
    /\ UNCHANGED <<args, rows, nread, targets, tasks, calls, consumed, had_error, out>>

\* fut.result() raised in the show loop: the with block unwinds, then the
\* exception ends the process
Unwind ==
    /\ pc = "unwind"
    /\ ExecutorExitReady
    /\ Terminate("task_exception")
    /\ UNCHANGED <<args, rows, nread, targets, tasks, calls, consumed, had_error, out>>

Next ==
    \/ MakeClient
    \/ MakeClientFails
    \/ SelectMode
    \/ AddFunction
    \/ OpenFile
    \/ OpenFails
    \/ ReadRow
    \/ EndOfFile
    \/ IterReturn
    \/ ValidateSet
    \/ DryRun
    \/ Submit
    \/ \E i \in 1..Len(tasks) : Start(i)
    \/ \E i \in 1..Len(tasks), o \in Outcomes : Finish(i, o)
    \/ \E i \in 1..Len(tasks) : Collect(i)
    \/ LoopEnd
    \/ Unwind

Spec == Init /\ [][Next]_vars

\* ======================= properties ======================================
Exited == pc = "done"

\* the run got past validation and was not a dry run: it executed live
LiveRan ==
    /\ Exited
    /\ term \in {"return", "had_error", "task_exception"}
    /\ args.show \/ ~args.dry_run

OnlyMode(k) ==
    /\ ~args.show
    /\ Chosen(args) = <<k>>

CallsOf(i) == { k \in 1..Len(calls) : calls[k].idx = i }

Writes == { k \in 1..Len(calls) : calls[k].op \in {"put", "delete"} }

AnyFailed == \E i \in 1..Len(tasks) : tasks[i].outcome \in {"client_error", "error"}

\* C1: with --show, whatever the other flags and targets, every remote call
\* issued is a get_function_concurrency call: no put and no delete.
C1_ShowOnlyReads ==
    args.show => \A k \in 1..Len(calls) : calls[k].op = "get"

C1_Witness ==
    /\ Exited
    /\ args.show /\ args.do_set /\ args.remove /\ args.dry_run
    /\ Len(calls) = 2

\* C2 as stated: with --dry-run no remote call of any kind is issued.
C2_DryRunNoCall ==
    args.dry_run => calls = <<>>

\* C2 amended: with --dry-run no write call is issued, and without --show no
\* call at all; --show --dry-run still issues its read calls.
C2_DryRunNoWrite ==
    args.dry_run => /\ Writes = {}
                    /\ ~args.show => calls = <<>>

C2_Witness ==
    /\ Exited
    /\ args.dry_run /\ ~args.show
    /\ term = "return"
    /\ Len(out) = 2
    /\ calls = <<>>

\* C3: a live run exits with 1 if at least one per-target operation failed,
\* with 0 if all succeeded, in every mode.
C3_ExitReflectsFailures ==
    (LiveRan /\ tasks # <<>>) => exit_code = Some(IF AnyFailed THEN 1 ELSE 0)

\* C4: a live run issues exactly one remote operation per resolved target,
\* and all of them have been issued and have completed when the process exits.
C4_NoEarlyAbort ==
    LiveRan =>
        /\ targets # <<>>
        /\ Len(tasks) = Len(targets)
        /\ Len(calls) = Len(targets)
        /\ \A i \in 1..Len(targets) :
             /\ tasks[i].state = "done"
             /\ Cardinality(CallsOf(i)) = 1
             /\ \A k \in CallsOf(i) : calls[k].fn = targets[i].fn

C4_Witness ==
    /\ LiveRan
    /\ Len(targets) = 2
    /\ tasks[1].outcome = "error"
    /\ tasks[2].outcome = "ok"
    /\ consumed = {1}

\* C5: a run ending in a configuration/validation error exits non-zero and
\* has issued no remote call.
C5_ConfigErrorNoCall ==
    (Exited /\ term \in ConfigErrors) =>
        /\ exit_code # None
        /\ exit_code # Some(0)
        /\ calls = <<>>
        /\ tasks = <<>>

C5_Witness ==
    /\ Exited
    /\ term = "bad_int"
    /\ Len(rows) = 1
    /\ ~args.dry_run

\* C6 as stated: in Set mode every target resolved to -1 gets a delete call,
\* and put is never called with -1.
C6_SetMinusOneDeletes ==
    (Exited /\ OnlyMode("set")) =>
        /\ \A i \in 1..Len(targets) :
             targets[i].v = Some(0 - 1) =>
                \E k \in CallsOf(i) : calls[k].op = "delete" /\ calls[k].fn = targets[i].fn
        /\ \A k \in 1..Len(calls) : ~(calls[k].op = "put" /\ calls[k].value = Some(0 - 1))

\* C6 amended: in a live Set run that passed validation every target resolved
\* to -1 gets a delete call; in no Set run is put called with -1.
C6_LiveSetMinusOneDeletes ==
    OnlyMode("set") =>
        /\ LiveRan =>
             \A i \in 1..Len(targets) :
                targets[i].v = Some(0 - 1) =>
                   \E k \in CallsOf(i) : calls[k].op = "delete" /\ calls[k].fn = targets[i].fn
        /\ \A k \in 1..Len(calls) : ~(calls[k].op = "put" /\ calls[k].value = Some(0 - 1))

C6_Witness ==
    /\ LiveRan
    /\ OnlyMode("set")
    /\ args.concurrency = Some(0 - 1)
    /\ Len(targets) = 2
    /\ targets[1].v = Some(5)
    /\ targets[2].v = Some(0 - 1)
    /\ calls[2].op = "delete"

\* C7: a live Throttle run issues only put calls with value 0, one per target,
\* whatever the rows' value texts and the --concurrency default: no row value
\* is parsed or kept, and no delete or other put is issued.
C7_ThrottleOnlyZero ==
    OnlyMode("throttle") =>
        /\ term \notin {"bad_int", "missing_value"}
        /\ \A i \in 1..Len(rows) : rows[i].v = None
        /\ \A k \in 1..Len(calls) : calls[k].op = "put" /\ calls[k].value = Some(0)
        /\ LiveRan => /\ Len(calls) = Len(targets)
                      /\ \A i \in 1..Len(targets) : Cardinality(CallsOf(i)) = 1

C7_Witness ==
    /\ LiveRan
    /\ OnlyMode("throttle")
    /\ args.concurrency = Some(0 - 2)
    /\ args.file # None
    /\ Len(calls) = 2

\* C8 as stated: every run with --dry-run ends with exit code 0.
C8_DryRunExitZero ==
    (Exited /\ args.dry_run) => exit_code = Some(0)

\* C8 amended: a run with --dry-run and without --show that does not end in a
\* configuration/validation error, a failed client construction or an
\* unreadable input file ends with exit code 0.
C8_ValidDryRunExitZero ==
    (Exited /\ args.dry_run /\ ~args.show /\ term \notin ConfigErrors \cup SetupErrors)
        => exit_code = Some(0)

C8_Witness ==
    /\ Exited
    /\ args.dry_run
    /\ OnlyMode("set")
    /\ Len(targets) = 2
    /\ Len(out) = 2
    /\ exit_code = Some(0)

\* a name add_row drops: empty once stripped, or header-like
Dropped(n) == Strip(n) = <<>> \/ StartsWith(Lower(Strip(n)), HeaderWord)

C10_PutNonNegative ==
    \A k \in 1..Len(calls) :
        calls[k].op = "put" => (calls[k].value # None /\ calls[k].value[1] >= 0)

====
